---- MODULE Spec2Model ----
(***************************************************************************)
(* Model of the concurrent resource-coordination layer of the              *)
(* express-graphql-demo backend: the edit lock of an event                 *)
(* (src/utils/lockManager.js), the capacity-bounded voucher issuance       *)
(* (resolvers/voucher.js, routes/vouchers.js) and the voucher use path.    *)
(*                                                                         *)
(* The store is MongoDB seen through mongoose.  A single store call        *)
(* (findOneAndUpdate, findById, create, ...) is atomic on its document;    *)
(* a handler is a sequence of store calls separated by awaits, so other    *)
(* handlers interleave between its calls.  Every handler is therefore a    *)
(* small process: a Begin step (arguments, the `new Date()` it samples)    *)
(* followed by one step per store interaction.                             *)
(*                                                                         *)
(* Time is counted in ticks of 100 seconds, so the 5 minute edit window    *)
(* EDIT_TIMEOUT_MS is 3 ticks.                                             *)
(***************************************************************************)
EXTENDS Integers, FiniteSets, Sequences, TLC

\* ------------------------------------------------------------------ bounds
MaxTime == 5
MaxQuantity == 2
MaxCalls == 3
MaxVouchers == 1

\* ------------------------------------------------------- program constants
EDIT_TIMEOUT_MS == 3
MaxAttempts == 3

\* ------------------------------------------------------------ value spaces
Procs == {"p1", "p2"}
UserIds == {"alice", "bob"}
EventIds == {"e1"}
Codes == {"A", "B"}
Null == "null"
NullDate == -1
NoProc == "none"

VARIABLES
  clock,        \* the wall clock every `new Date()` reads
  events,       \* the Event collection: _id -> document
  freshIds,     \* event ids the store has not generated yet
  vouchers,     \* the Voucher collection: a set of documents
  nextVoucherId,\* voucher ids generated so far
  pc,           \* where each running handler stands
  userId,       \* the caller identity of the handler
  now,          \* the `now` the handler sampled
  target,       \* the voucher the handler works on
  attempts,     \* issueVoucherToUser: the retry counter
  voucherDoc,   \* the voucher document a handler holds (NoDoc: undefined)
  txn,          \* the writes staged by each handler's open transaction
  docLock,      \* the transaction holding the event document's write lock
  last,         \* the outcome returned by the call that completed last
  stats,        \* history: how many Issue calls started and how each ended
  useOk,        \* history: per voucher id, how many use calls returned success
  notices,      \* the notification queue: the jobs enqueued so far
  stale,        \* per handler: the event was written since its snapshot
  leaseFrom     \* history: per event, the operation that wrote editLockAt

vars == <<clock, events, freshIds, vouchers, nextVoucherId, pc, userId, now,
          target, attempts, voucherDoc, txn, docLock, last, stats, useOk,
          notices, stale, leaseFrom>>

procVars == <<pc, userId, now, target, attempts, voucherDoc>>
issueVars == <<target, attempts, voucherDoc, txn, docLock>>
storeVars == <<events, freshIds, vouchers, nextVoucherId>>
histVars == <<stats, useOk>>

\* ------------------------------------------------------------ the documents
\* Mutant of the creation: the new event counts one voucher as issued.
NewEventCounted(q) ==
  [maxQuantity |-> q, issuedCount |-> 1, isActive |-> TRUE,
   editingBy |-> Null, editLockAt |-> NullDate]

NewEvent(q) ==
  [maxQuantity |-> q, issuedCount |-> 0, isActive |-> TRUE,
   editingBy |-> Null, editLockAt |-> NullDate]

Exists(eventId) == eventId \in DOMAIN events

\* `undefined`, for a voucher variable that holds no document.
NoDoc ==
  [id |-> 0, eventId |-> Null, code |-> Null, isUsed |-> FALSE,
   updatedAt |-> NullDate]

NewVoucher(id, e, code, t) ==
  [id |-> id, eventId |-> e, code |-> code, isUsed |-> FALSE, updatedAt |-> t]

VoucherIds == {v.id : v \in vouchers}
VoucherById(id) == CHOOSE v \in vouchers : v.id = id

\* MongoDB's $lt / $gt on a date field: a null field matches neither.
DateLt(d, t) == d # NullDate /\ d < t
DateGt(d, t) == d # NullDate /\ d > t

\* The writes a transaction has staged: the increment of issuedCount and the
\* voucher documents inserted.
NoWrites == [inc |-> 0, docs |-> {}]

\* What a call returned.  user, prevBy and prevAt are history: the caller and
\* the lock fields the call found, kept for the lock operations only; fault
\* is history too: a store call of the operation threw.
NoResult == [proc |-> NoProc, op |-> "none", code |-> 0, message |-> "",
             lockUntil |-> NullDate, user |-> Null, prevBy |-> Null,
             prevAt |-> NullDate, fault |-> FALSE]

Result(p, op, code, message, lockUntil) ==
  [proc |-> p, op |-> op, code |-> code, message |-> message,
   lockUntil |-> lockUntil, user |-> Null, prevBy |-> Null,
   prevAt |-> NullDate, fault |-> FALSE]

Found(r, p, e) ==
  [r EXCEPT !.user = userId[p],
            !.prevBy = IF Exists(e) THEN events[e].editingBy ELSE Null,
            !.prevAt = IF Exists(e) THEN events[e].editLockAt ELSE NullDate]

Idle(p) == pc[p] = "idle"

\* The handler returns: its locals go out of scope.
Return(p) ==
  /\ pc' = [pc EXCEPT ![p] = "idle"]
  /\ userId' = [userId EXCEPT ![p] = Null]
  /\ now' = [now EXCEPT ![p] = 0]

\* A transaction reads from the snapshot taken at its first store call; a
\* committed write to the event makes every open snapshot of it stale.
SnapshotPcs == {"rest_save", "rest_inc"}

Touch(p) ==
  stale' = [q \in Procs |-> q # p /\ (stale[q] \/ pc[q] \in SnapshotPcs)]

\* The lock operations open their transaction with startTransaction: an update
\* that matches a document another open transaction has written is not
\* retried, the store throws WriteConflict into the operation's catch block.
HeldByTransaction(p) == docLock \notin {NoProc, p}

\* catch (error) { await session.abortTransaction(); throw error; }: nothing
\* is written and the caller gets the error, not an outcome.
Thrown(p, op, message) == Result(p, op, 0, message, NullDate)

\* A store call of a lock operation throws.  The update and the commit are
\* inside the outer try: its catch aborts and rethrows.  The re-read in the
\* session has a try of its own, whose catch reads again outside the session:
\* when that read answers, the operation goes on to its diagnosis.
LockFault(p, op, matched, diagnosis) ==
  \E recovered \in BOOLEAN :
    /\ recovered => ~matched
    /\ last' = [(IF recovered THEN diagnosis
                               ELSE Thrown(p, op, "store fault"))
                  EXCEPT !.fault = TRUE]

\* ------------------------------------------------------------------- clock
Tick ==
  /\ clock < MaxTime
  /\ clock' = clock + 1
  /\ UNCHANGED <<storeVars, procVars, txn, docLock, last, histVars>>
  /\ UNCHANGED <<notices, stale, leaseFrom>>

\* ------------------------------------------------------------- createEvent
CreateEvent ==
  \E id \in freshIds, q \in 1..MaxQuantity :
    /\ events' = (id :> NewEvent(q)) @@ events
    /\ freshIds' = freshIds \ {id}
    /\ UNCHANGED <<clock, vouchers, nextVoucherId, procVars, txn, docLock, last,
                   histVars>>
  /\ UNCHANGED <<notices, stale, leaseFrom>>

\* ------------------------------------------------------- POST /api/events
\* new Event({...req.body, issuedCount: 0}): every schema field of the body
\* is taken as sent, the lock fields included.
RestDates == {NullDate, 0, MaxTime}

RestCreateEvent ==
  \E id \in freshIds, q \in 1..MaxQuantity,
     by \in UserIds \cup {Null}, at \in RestDates :
    /\ events' = (id :> [NewEvent(q) EXCEPT !.editingBy = by,
                                            !.editLockAt = at]) @@ events
    /\ freshIds' = freshIds \ {id}
    /\ leaseFrom' = [leaseFrom EXCEPT ![id] = IF at = NullDate THEN "none"
                                                               ELSE "create"]
    /\ UNCHANGED <<clock, vouchers, nextVoucherId, procVars, txn, docLock, last,
                   histVars, notices, stale>>

\* ---------------------------------------------------------- requestEditLock
\* The filter of the conditional update: nobody edits, or the lock expired.
\* Mutants of the filter: $gt written for $lt; the expiry branch left out.
RequestFilterGt(doc, t) == doc.editingBy = Null \/ DateGt(doc.editLockAt, t)
RequestFilterUnheldOnly(doc, t) == doc.editingBy = Null

RequestFilter(doc, t) == doc.editingBy = Null \/ DateLt(doc.editLockAt, t)

RequestBegin(p) ==
  /\ Idle(p)
  /\ \E u \in UserIds :
       /\ pc' = [pc EXCEPT ![p] = "request"]
       /\ userId' = [userId EXCEPT ![p] = u]
       /\ now' = [now EXCEPT ![p] = clock]
  /\ UNCHANGED <<clock, storeVars, issueVars, last, histVars>>
  /\ UNCHANGED <<notices, stale, leaseFrom>>

\* Mutant of the diagnosis: the holder is not told apart from other users.
RequestDiagnoseNoSelf(p, e) ==
  IF /\ Exists(e)
     /\ events[e].editingBy # Null
     /\ DateGt(events[e].editLockAt, now[p])
  THEN Result(p, "request", 409, "Event is being edited by another user",
              events[e].editLockAt)
  ELSE Result(p, "request", 404, "Event not found", NullDate)

\* The outcome of the diagnostic re-read after the update matched nothing.
RequestDiagnose(p, e) ==
  IF /\ Exists(e)
     /\ events[e].editingBy # Null
     /\ DateGt(events[e].editLockAt, now[p])
  THEN IF events[e].editingBy = userId[p]
       THEN Result(p, "request", 200, "Already editing", events[e].editLockAt)
       ELSE Result(p, "request", 409, "Event is being edited by another user",
                   events[e].editLockAt)
  ELSE Result(p, "request", 404, "Event not found", NullDate)

\* The update of requestEditLock would write an event held by another
\* transaction.
RequestConflicts(p) ==
  \E e \in EventIds :
    /\ Exists(e)
    /\ RequestFilter(events[e], now[p])
    /\ HeldByTransaction(p)

\* The conditional update, the re-read and the commit or abort.  They run in
\* one transaction on one document, so the re-read sees the document the
\* update met; the time compared is the `now` sampled before the update.
RequestExec(p) ==
  /\ pc[p] = "request"
  /\ ~RequestConflicts(p)
  /\ \E e \in EventIds :
       IF Exists(e) /\ RequestFilter(events[e], now[p])
       THEN /\ events' = [events EXCEPT
                 ![e].editingBy = userId[p],
                 ![e].editLockAt = now[p] + EDIT_TIMEOUT_MS]
            /\ last' = Found(Result(p, "request", 200, "Edit lock acquired",
                                    now[p] + EDIT_TIMEOUT_MS), p, e)
            /\ leaseFrom' = [leaseFrom EXCEPT ![e] = "request"]
            /\ Touch(p)
       ELSE /\ events' = events
            /\ last' = Found(RequestDiagnose(p, e), p, e)
            /\ UNCHANGED <<stale, leaseFrom>>
  /\ Return(p)
  /\ UNCHANGED <<clock, freshIds, vouchers, nextVoucherId, issueVars, histVars>>
  /\ notices' = notices

\* A store call of requestEditLock throws.
RequestFault(p) ==
  /\ pc[p] = "request"
  /\ \E e \in EventIds :
       LockFault(p, "request", Exists(e) /\ RequestFilter(events[e], now[p]),
                 Found(RequestDiagnose(p, e), p, e))
  /\ Return(p)
  /\ UNCHANGED <<clock, storeVars, issueVars, histVars, notices, stale,
                 leaseFrom>>

\* The update throws WriteConflict: the catch block aborts and rethrows.
RequestConflict(p) ==
  /\ pc[p] = "request"
  /\ RequestConflicts(p)
  /\ \E e \in EventIds :
       last' = Found(Thrown(p, "request", "WriteConflict"), p, e)
  /\ Return(p)
  /\ UNCHANGED <<clock, storeVars, issueVars, histVars, notices, stale,
                 leaseFrom>>

\* ---------------------------------------------------------- releaseEditLock
\* Mutant of the filter: any held lock is cleared, whoever asks.
ReleaseFilterAnyHolder(doc, u) == doc.editingBy # Null

ReleaseFilter(doc, u) == doc.editingBy = u

\* Mutant of the update: only the holder is cleared, the expiry stays.
ReleaseSetHolderOnly(doc) == [doc EXCEPT !.editingBy = Null]

\* $set: { editingBy: null, editLockAt: null }.
ReleaseSet(doc) == [doc EXCEPT !.editingBy = Null, !.editLockAt = NullDate]

ReleaseBegin(p) ==
  /\ Idle(p)
  /\ \E u \in UserIds :
       /\ pc' = [pc EXCEPT ![p] = "release"]
       /\ userId' = [userId EXCEPT ![p] = u]
  /\ UNCHANGED <<clock, storeVars, now, issueVars, last, histVars>>
  /\ UNCHANGED <<notices, stale, leaseFrom>>

\* The outcome of the diagnostic re-read after the update matched nothing.
ReleaseDiagnose(p, e) ==
  IF ~Exists(e)
  THEN Result(p, "release", 404, "Event not found", NullDate)
  ELSE Result(p, "release", 403, "You are not the editing user",
              events[e].editLockAt)

\* The update of releaseEditLock would write an event held by another
\* transaction.
ReleaseConflicts(p) ==
  \E e \in EventIds :
    /\ Exists(e)
    /\ ReleaseFilter(events[e], userId[p])
    /\ HeldByTransaction(p)


ReleaseExec(p) ==
  /\ pc[p] = "release"
  /\ ~ReleaseConflicts(p)
  /\ \E e \in EventIds :
       IF Exists(e) /\ ReleaseFilter(events[e], userId[p])
       THEN /\ events' = [events EXCEPT ![e] = ReleaseSet(events[e])]
            /\ last' = Found(Result(p, "release", 200, "Edit lock released",
                                    NullDate), p, e)
            /\ leaseFrom' = [leaseFrom EXCEPT ![e] = "none"]
            /\ Touch(p)
       ELSE /\ events' = events
            /\ last' = Found(ReleaseDiagnose(p, e), p, e)
            /\ UNCHANGED <<stale, leaseFrom>>
  /\ Return(p)
  /\ UNCHANGED <<clock, freshIds, vouchers, nextVoucherId, issueVars, histVars>>
  /\ notices' = notices

\* A store call of releaseEditLock throws.
ReleaseFault(p) ==
  /\ pc[p] = "release"
  /\ \E e \in EventIds :
       LockFault(p, "release", Exists(e) /\ ReleaseFilter(events[e], userId[p]),
                 Found(ReleaseDiagnose(p, e), p, e))
  /\ Return(p)
  /\ UNCHANGED <<clock, storeVars, issueVars, histVars, notices, stale,
                 leaseFrom>>

\* The update throws WriteConflict: the catch block aborts and rethrows.
ReleaseConflict(p) ==
  /\ pc[p] = "release"
  /\ ReleaseConflicts(p)
  /\ \E e \in EventIds :
       last' = Found(Thrown(p, "release", "WriteConflict"), p, e)
  /\ Return(p)
  /\ UNCHANGED <<clock, storeVars, issueVars, histVars, notices, stale,
                 leaseFrom>>

\* --------------------------------------------------------- maintainEditLock
\* Mutant of the filter: the expiry is not looked at.
MaintainFilterNoExpiry(doc, u, t) == doc.editingBy = u

MaintainFilter(doc, u, t) == doc.editingBy = u /\ DateGt(doc.editLockAt, t)

\* Mutant of the new expiry: the window is added to the expiry the lock had.
NewExpiresAtFromExpiry(doc, t) == doc.editLockAt + EDIT_TIMEOUT_MS

\* newExpiresAt = new Date(now.getTime() + EDIT_TIMEOUT_MS), for the lock doc.
NewExpiresAt(doc, t) == t + EDIT_TIMEOUT_MS

MaintainBegin(p) ==
  /\ Idle(p)
  /\ \E u \in UserIds :
       /\ pc' = [pc EXCEPT ![p] = "maintain"]
       /\ userId' = [userId EXCEPT ![p] = u]
       /\ now' = [now EXCEPT ![p] = clock]
  /\ UNCHANGED <<clock, storeVars, issueVars, last, histVars>>
  /\ UNCHANGED <<notices, stale, leaseFrom>>

\* Mutant of the diagnosis: an expired lease is not told apart from a lock held
\* by somebody else.
MaintainDiagnoseNoExpired(p, e) ==
  IF ~Exists(e)
  THEN Result(p, "maintain", 404, "Event not found", NullDate)
  ELSE Result(p, "maintain", 403, "You are not the editing user",
              events[e].editLockAt)

\* The outcome of the diagnostic re-read after the update matched nothing.
MaintainDiagnose(p, e) ==
  IF ~Exists(e)
  THEN Result(p, "maintain", 404, "Event not found", NullDate)
  ELSE IF events[e].editingBy # userId[p]
  THEN Result(p, "maintain", 403, "You are not the editing user",
              events[e].editLockAt)
  ELSE Result(p, "maintain", 409, "Edit lock expired", events[e].editLockAt)

\* The update of maintainEditLock would write an event held by another
\* transaction.
MaintainConflicts(p) ==
  \E e \in EventIds :
    /\ Exists(e)
    /\ MaintainFilter(events[e], userId[p], now[p])
    /\ HeldByTransaction(p)


MaintainExec(p) ==
  /\ pc[p] = "maintain"
  /\ ~MaintainConflicts(p)
  /\ \E e \in EventIds :
       IF Exists(e) /\ MaintainFilter(events[e], userId[p], now[p])
       THEN /\ events' = [events EXCEPT
                 ![e].editLockAt = NewExpiresAt(events[e], now[p])]
            /\ last' = Found(Result(p, "maintain", 200, "Edit lock extended",
                                    NewExpiresAt(events[e], now[p])), p, e)
            /\ leaseFrom' = [leaseFrom EXCEPT ![e] = "maintain"]
            /\ Touch(p)
       ELSE /\ events' = events
            /\ last' = Found(MaintainDiagnose(p, e), p, e)
            /\ UNCHANGED <<stale, leaseFrom>>
  /\ Return(p)
  /\ UNCHANGED <<clock, freshIds, vouchers, nextVoucherId, issueVars, histVars>>
  /\ notices' = notices

\* A store call of maintainEditLock throws.
MaintainFault(p) ==
  /\ pc[p] = "maintain"
  /\ \E e \in EventIds :
       LockFault(p, "maintain", Exists(e) /\ MaintainFilter(events[e], userId[p], now[p]),
                 Found(MaintainDiagnose(p, e), p, e))
  /\ Return(p)
  /\ UNCHANGED <<clock, storeVars, issueVars, histVars, notices, stale,
                 leaseFrom>>

\* The update throws WriteConflict: the catch block aborts and rethrows.
MaintainConflict(p) ==
  /\ pc[p] = "maintain"
  /\ MaintainConflicts(p)
  /\ \E e \in EventIds :
       last' = Found(Thrown(p, "maintain", "WriteConflict"), p, e)
  /\ Return(p)
  /\ UNCHANGED <<clock, storeVars, issueVars, histVars, notices, stale,
                 leaseFrom>>

\* ------------------------------------- POST /:id/lock, POST /:id/unlock
\* The HTTP status each route answers with for the code the lock operation
\* returned; every code the route does not name becomes 500.
RestLockStatus(code) ==
  IF code = 200 THEN 200
  ELSE IF code = 409 THEN 409
  ELSE IF code = 404 THEN 404
  ELSE 500

RestUnlockStatus(code) ==
  IF code = 200 THEN 200
  ELSE IF code = 403 THEN 403
  ELSE 500

\* ------------------------------------------------------ issueVoucherToUser
\* session.withTransaction: the writes of the callback are staged and become
\* visible together at commit.  A write to a document another open
\* transaction has written conflicts; withTransaction runs the callback
\* again, so the conflicting write is made once the other transaction ended.
\* Mutant of the filter: the $expr comparing issuedCount is left out.
IssueFilterNoCapacity(doc) == doc.isActive # FALSE

IssueFilter(doc) == doc.isActive # FALSE /\ doc.issuedCount < doc.maxQuantity

\* genVoucherCode: a time- and random-derived code; any code may come out.
GenVoucherCode == Codes

\* Voucher.create fails with E11000 when the unique index holds the code.
DuplicateKey(code) == \E v \in vouchers : v.code = code

\* A code another open transaction has inserted and not yet committed: the
\* insert conflicts, and withTransaction runs the callback again once the
\* other transaction has ended.
StagedCode(p, code) ==
  \E q \in Procs \ {p} : \E v \in txn[q].docs : v.code = code

IssueBegin(p) ==
  /\ Idle(p)
  /\ stats.started < MaxCalls
  /\ pc' = [pc EXCEPT ![p] = "issue_inc"]
  /\ txn' = [txn EXCEPT ![p] = NoWrites]
  /\ voucherDoc' = [voucherDoc EXCEPT ![p] = NoDoc]
  /\ attempts' = [attempts EXCEPT ![p] = 0]
  /\ stats' = [stats EXCEPT !.started = @ + 1]
  /\ UNCHANGED <<clock, storeVars, userId, now, target, docLock, last, useOk>>
  /\ UNCHANGED <<notices, stale, leaseFrom>>

\* Mutant of the abort: the increment was written outside the transaction.
AbortKeepsIncrement(p) ==
  /\ events' = [e \in DOMAIN events |->
                 [events[e] EXCEPT !.issuedCount = @ + txn[p].inc]]
  /\ vouchers' = vouchers
  /\ docLock' = IF docLock = p THEN NoProc ELSE docLock
  /\ txn' = [txn EXCEPT ![p] = NoWrites]

\* What abortTransaction leaves in the store: the staged writes are dropped.
AbortTransaction(p) ==
  /\ events' = events
  /\ vouchers' = vouchers
  /\ docLock' = IF docLock = p THEN NoProc ELSE docLock
  /\ txn' = [txn EXCEPT ![p] = NoWrites]

\* What commitTransaction leaves in the store: the staged writes applied.
CommitTransaction(p, e) ==
  /\ events' = IF Exists(e)
               THEN [events EXCEPT ![e].issuedCount = @ + txn[p].inc]
               ELSE events
  /\ vouchers' = vouchers \cup txn[p].docs
  /\ docLock' = IF docLock = p THEN NoProc ELSE docLock
  /\ txn' = [txn EXCEPT ![p] = NoWrites]

\* Step 1: the conditional increment; no match throws and aborts.  A match
\* writes the event, which needs the document free of other transactions.
IssueInc(p) ==
  /\ pc[p] = "issue_inc"
  /\ \E e \in EventIds :
       IF Exists(e) /\ IssueFilter(events[e])
       THEN /\ docLock = NoProc
            /\ docLock' = p
            /\ txn' = [txn EXCEPT ![p].inc = 1]
            /\ pc' = [pc EXCEPT ![p] = "issue_create"]
            /\ UNCHANGED <<events, vouchers, last, stats>>
       ELSE /\ AbortTransaction(p)
            /\ pc' = [pc EXCEPT ![p] = "idle"]
            /\ last' = Result(p, "issue", 0,
                 "Event not found or no more voucher slots available", NullDate)
            /\ stats' = [stats EXCEPT !.exhausted = @ + 1]
  /\ UNCHANGED <<clock, freshIds, nextVoucherId, userId, now, target, attempts,
                 voucherDoc, useOk>>
  /\ UNCHANGED <<notices, stale, leaseFrom>>

\* Mutant of the loop condition: the loop goes on whatever the count.
LoopGoesOnAlways(n) == TRUE

\* while (attempts < 3), as evaluated after attempts += 1.
LoopGoesOn(n) == n < MaxAttempts

\* Step 2: one pass of the retry loop.  A duplicate code counts an attempt;
\* the third one ends the loop, and `if (!voucherDoc)` throws and aborts.
\* voucherDoc is declared outside the callback: when the callback runs again
\* it still holds the document of the earlier run, and the test passes.
IssueCreate(p) ==
  /\ pc[p] = "issue_create"
  /\ attempts[p] < MaxAttempts
  /\ \E e \in EventIds, code \in GenVoucherCode :
       /\ ~StagedCode(p, code)
       /\ IF ~DuplicateKey(code)
          THEN /\ voucherDoc' = [voucherDoc EXCEPT
                    ![p] = NewVoucher(nextVoucherId + 1, e, code, clock)]
               /\ txn' = [txn EXCEPT
                    ![p].docs = {NewVoucher(nextVoucherId + 1, e, code, clock)}]
               /\ nextVoucherId' = nextVoucherId + 1
               /\ useOk' = Append(useOk, 0)
               /\ pc' = [pc EXCEPT ![p] = "issue_commit"]
               /\ UNCHANGED <<events, vouchers, attempts, docLock, last, stats>>
          ELSE IF LoopGoesOn(attempts[p] + 1)
          THEN /\ attempts' = [attempts EXCEPT ![p] = @ + 1]
               /\ UNCHANGED <<events, vouchers, nextVoucherId, voucherDoc, pc,
                              txn, docLock, last, stats, useOk>>
          ELSE IF voucherDoc[p] = NoDoc
          THEN /\ AbortTransaction(p)
               /\ attempts' = [attempts EXCEPT ![p] = 0]
               /\ pc' = [pc EXCEPT ![p] = "idle"]
               /\ last' = Result(p, "issue", 0,
                    "Failed to generate unique voucher code", NullDate)
               /\ stats' = [stats EXCEPT !.codeFailed = @ + 1]
               /\ UNCHANGED <<nextVoucherId, voucherDoc, useOk>>
          ELSE /\ pc' = [pc EXCEPT ![p] = "issue_commit"]
               /\ attempts' = [attempts EXCEPT ![p] = 0]
               /\ UNCHANGED <<events, vouchers, nextVoucherId, voucherDoc, txn,
                              docLock, last, stats, useOk>>
  /\ UNCHANGED <<clock, freshIds, userId, now, target>>
  /\ UNCHANGED <<notices, stale, leaseFrom>>

\* Voucher.create throws an error that is not E11000: `throw e` leaves the
\* loop and the callback, withTransaction aborts, and the resolver's catch
\* throws 'Voucher issuance failed'.
IssueCreateFault(p) ==
  /\ pc[p] = "issue_create"
  /\ attempts[p] < MaxAttempts
  /\ AbortTransaction(p)
  /\ attempts' = [attempts EXCEPT ![p] = 0]
  /\ pc' = [pc EXCEPT ![p] = "idle"]
  /\ last' = [Thrown(p, "issue", "store fault") EXCEPT !.fault = TRUE]
  /\ stats' = [stats EXCEPT !.failed = @ + 1]
  /\ UNCHANGED <<clock, freshIds, nextVoucherId, userId, now, target,
                 voucherDoc, useOk, notices, stale, leaseFrom>>

\* Step 3: the callback returned; withTransaction commits.
IssueCommit(p) ==
  /\ pc[p] = "issue_commit"
  /\ \E e \in EventIds : CommitTransaction(p, e)
  /\ pc' = [pc EXCEPT ![p] = "issue_notify"]
  /\ attempts' = [attempts EXCEPT ![p] = 0]
  /\ stats' = [stats EXCEPT !.issued = @ + 1]
  /\ UNCHANGED <<clock, freshIds, nextVoucherId, userId, now, target,
                 voucherDoc, last, useOk>>
  /\ Touch(p)
  /\ UNCHANGED <<notices, leaseFrom>>

\* commitTransaction fails with a transient transaction error: withTransaction
\* drops the staged writes and runs the callback again.  `attempts` is a local
\* of the callback; `event` and `voucherDoc` are locals of the resolver and
\* keep their values.
IssueRetry(p) ==
  /\ pc[p] = "issue_commit"
  /\ nextVoucherId <= MaxCalls
  /\ AbortTransaction(p)
  /\ pc' = [pc EXCEPT ![p] = "issue_inc"]
  /\ attempts' = [attempts EXCEPT ![p] = 0]
  /\ UNCHANGED <<clock, freshIds, nextVoucherId, userId, now, target,
                 voucherDoc, last, histVars, notices, stale, leaseFrom>>

\* queueService.addVoucherEmailJob: the job is added to the queue, or the
\* queue throws and nothing is added.
Notice(kind, v) == [kind |-> kind, voucher |-> v.id]

AddVoucherEmailJob(v, ok) ==
  IF ok THEN notices \cup {Notice("issued", v)} ELSE notices

\* Mutant of the catch: the queue's error is thrown on to the caller.
IssueReturnThrowsQueueError(p, ok) ==
  IF ok THEN Result(p, "issue", 200, "issued", NullDate)
        ELSE Result(p, "issue", 0, "Voucher issuance failed", NullDate)

\* catch (emailErr): logged and dropped; the voucher is returned either way.
IssueReturn(p, ok) == Result(p, "issue", 200, "issued", NullDate)

\* Step 4: outside the transaction, the notice is enqueued inside its own
\* try/catch; then the voucher is read back and returned.
IssueNotify(p) ==
  /\ pc[p] = "issue_notify"
  /\ \E ok \in BOOLEAN :
       /\ notices' = AddVoucherEmailJob(voucherDoc[p], ok)
       /\ last' = IssueReturn(p, ok)
  /\ pc' = [pc EXCEPT ![p] = "idle"]
  /\ voucherDoc' = [voucherDoc EXCEPT ![p] = NoDoc]
  /\ UNCHANGED <<clock, storeVars, userId, now, target, attempts, txn, docLock,
                 histVars, stale, leaseFrom>>

\* ------------------------------------------------ POST /api/vouchers/issue
\* The route opens its transaction itself (no withTransaction): an error of
\* any store call, a write conflict included, goes to the catch, which aborts
\* and answers 400.
RestIssueBegin(p) ==
  /\ Idle(p)
  /\ stats.started < MaxCalls
  /\ pc' = [pc EXCEPT ![p] = "rest_read"]
  /\ txn' = [txn EXCEPT ![p] = NoWrites]
  /\ voucherDoc' = [voucherDoc EXCEPT ![p] = NoDoc]
  /\ stats' = [stats EXCEPT !.started = @ + 1]
  /\ UNCHANGED <<clock, storeVars, userId, now, target, attempts, docLock, last,
                 useOk, notices, stale, leaseFrom>>

\* if (eventDoc.issuedCount >= eventDoc.maxQuantity) throw EVENT_FULL.
EventFull(doc) == doc.issuedCount >= doc.maxQuantity

\* Event.findById in the session, which takes the snapshot, and the two
\* checks on the document read.
RestIssueRead(p) ==
  /\ pc[p] = "rest_read"
  /\ \E e \in EventIds :
       IF ~Exists(e)
       THEN /\ pc' = [pc EXCEPT ![p] = "idle"]
            /\ last' = Result(p, "rest_issue", 400, "EVENT_NOT_FOUND", NullDate)
            /\ stats' = [stats EXCEPT !.exhausted = @ + 1]
       ELSE IF EventFull(events[e])
       THEN /\ pc' = [pc EXCEPT ![p] = "idle"]
            /\ last' = Result(p, "rest_issue", 400, "EVENT_FULL", NullDate)
            /\ stats' = [stats EXCEPT !.exhausted = @ + 1]
       ELSE /\ pc' = [pc EXCEPT ![p] = "rest_save"]
            /\ UNCHANGED <<last, stats>>
  /\ stale' = [stale EXCEPT ![p] = FALSE]
  /\ UNCHANGED <<clock, storeVars, userId, now, target, attempts, voucherDoc,
                 txn, docLock, useOk, notices, leaseFrom>>

\* voucherDoc.save({session}): the unique index turns a taken code away.
RestIssueSave(p) ==
  /\ pc[p] = "rest_save"
  /\ \E e \in EventIds, code \in GenVoucherCode :
       IF DuplicateKey(code) \/ StagedCode(p, code)
       THEN /\ AbortTransaction(p)
            /\ pc' = [pc EXCEPT ![p] = "idle"]
            /\ last' = Result(p, "rest_issue", 400, "VOUCHER_ISSUANCE_FAILED",
                              NullDate)
            /\ stats' = [stats EXCEPT !.failed = @ + 1]
            /\ stale' = [stale EXCEPT ![p] = FALSE]
            /\ UNCHANGED <<nextVoucherId, voucherDoc, useOk>>
       ELSE /\ voucherDoc' = [voucherDoc EXCEPT
                 ![p] = NewVoucher(nextVoucherId + 1, e, code, clock)]
            /\ txn' = [txn EXCEPT
                 ![p].docs = {NewVoucher(nextVoucherId + 1, e, code, clock)}]
            /\ nextVoucherId' = nextVoucherId + 1
            /\ useOk' = Append(useOk, 0)
            /\ pc' = [pc EXCEPT ![p] = "rest_inc"]
            /\ UNCHANGED <<events, vouchers, docLock, last, stats, stale>>
  /\ UNCHANGED <<clock, freshIds, userId, now, target, attempts, notices,
                 leaseFrom>>

\* Mutant of the store's conflict detection: the write is always accepted.
SnapshotConflictNever(p) == FALSE

\* The write of a transaction conflicts when the document was written after
\* the transaction's snapshot or is held by another open transaction.
SnapshotConflict(p) == stale[p] \/ docLock # NoProc

\* Event.findByIdAndUpdate(eventId, {$inc: {issuedCount: 1}}, {session}): no
\* condition on the count or on isActive.  The write conflicts when the event
\* was written after the snapshot or is held by another open transaction.
RestIssueInc(p) ==
  /\ pc[p] = "rest_inc"
  /\ IF SnapshotConflict(p)
     THEN /\ AbortTransaction(p)
          /\ pc' = [pc EXCEPT ![p] = "idle"]
          /\ voucherDoc' = [voucherDoc EXCEPT ![p] = NoDoc]
          /\ last' = Result(p, "rest_issue", 400, "VOUCHER_ISSUANCE_FAILED",
                            NullDate)
          /\ stats' = [stats EXCEPT !.failed = @ + 1]
          /\ stale' = [stale EXCEPT ![p] = FALSE]
     ELSE /\ docLock' = p
          /\ txn' = [txn EXCEPT ![p].inc = 1]
          /\ pc' = [pc EXCEPT ![p] = "rest_commit"]
          /\ UNCHANGED <<events, vouchers, voucherDoc, last, stats, stale>>
  /\ UNCHANGED <<clock, freshIds, nextVoucherId, userId, now, target, attempts,
                 useOk, notices, leaseFrom>>

\* session.commitTransaction().
RestIssueCommit(p) ==
  /\ pc[p] = "rest_commit"
  /\ \E e \in EventIds : CommitTransaction(p, e)
  /\ pc' = [pc EXCEPT ![p] = "rest_notify"]
  /\ stats' = [stats EXCEPT !.issued = @ + 1]
  /\ Touch(p)
  /\ UNCHANGED <<clock, freshIds, nextVoucherId, userId, now, target, attempts,
                 voucherDoc, last, useOk, notices, leaseFrom>>

\* The notice inside its own try/catch, then the 201 answer.
RestIssueNotify(p) ==
  /\ pc[p] = "rest_notify"
  /\ \E ok \in BOOLEAN : notices' = AddVoucherEmailJob(voucherDoc[p], ok)
  /\ pc' = [pc EXCEPT ![p] = "idle"]
  /\ voucherDoc' = [voucherDoc EXCEPT ![p] = NoDoc]
  /\ last' = Result(p, "rest_issue", 201, "issued", NullDate)
  /\ UNCHANGED <<clock, storeVars, userId, now, target, attempts, txn, docLock,
                 histVars, stale, leaseFrom>>

\* ------------------------- issueVoucherToUser, the variant without session
\* Read the event, compare the counts, save the voucher, increment: four
\* store calls, none of them in a transaction.
OldIssueBegin(p) ==
  /\ Idle(p)
  /\ stats.started < MaxCalls
  /\ pc' = [pc EXCEPT ![p] = "old_read"]
  /\ voucherDoc' = [voucherDoc EXCEPT ![p] = NoDoc]
  /\ stats' = [stats EXCEPT !.started = @ + 1]
  /\ UNCHANGED <<clock, storeVars, userId, now, target, attempts, txn, docLock,
                 last, useOk, notices, stale, leaseFrom>>

\* Event.findById and the two checks on the document read.
OldIssueRead(p) ==
  /\ pc[p] = "old_read"
  /\ \E e \in EventIds :
       IF ~Exists(e)
       THEN /\ pc' = [pc EXCEPT ![p] = "idle"]
            /\ last' = Result(p, "old_issue", 0, "Event not found", NullDate)
            /\ stats' = [stats EXCEPT !.exhausted = @ + 1]
       ELSE IF EventFull(events[e])
       THEN /\ pc' = [pc EXCEPT ![p] = "idle"]
            /\ last' = Result(p, "old_issue", 0,
                 "Event has reached maximum voucher limit", NullDate)
            /\ stats' = [stats EXCEPT !.exhausted = @ + 1]
       ELSE /\ pc' = [pc EXCEPT ![p] = "old_save"]
            /\ UNCHANGED <<last, stats>>
  /\ UNCHANGED <<clock, storeVars, userId, now, target, attempts, voucherDoc,
                 txn, docLock, useOk, notices, stale, leaseFrom>>

\* voucher.save(): written at once; the unique index turns a taken code away.
OldIssueSave(p) ==
  /\ pc[p] = "old_save"
  /\ \E e \in EventIds, code \in GenVoucherCode :
       /\ ~StagedCode(p, code)
       /\ IF DuplicateKey(code)
          THEN /\ pc' = [pc EXCEPT ![p] = "idle"]
               /\ last' = Result(p, "old_issue", 0, "Voucher issuance failed",
                                 NullDate)
               /\ stats' = [stats EXCEPT !.failed = @ + 1]
               /\ UNCHANGED <<vouchers, nextVoucherId, voucherDoc, useOk>>
          ELSE /\ vouchers' = vouchers \cup
                    {NewVoucher(nextVoucherId + 1, e, code, clock)}
               /\ voucherDoc' = [voucherDoc EXCEPT
                    ![p] = NewVoucher(nextVoucherId + 1, e, code, clock)]
               /\ nextVoucherId' = nextVoucherId + 1
               /\ useOk' = Append(useOk, 0)
               /\ pc' = [pc EXCEPT ![p] = "old_inc"]
               /\ UNCHANGED <<last, stats>>
  /\ UNCHANGED <<clock, events, freshIds, userId, now, target, attempts, txn,
                 docLock, notices, stale, leaseFrom>>

\* Event.findByIdAndUpdate(eventId, {$inc: {issuedCount: 1}}): no condition on
\* the count; then the voucher is read back and returned.
OldIssueInc(p) ==
  /\ pc[p] = "old_inc"
  /\ docLock = NoProc
  /\ \E e \in EventIds :
       events' = IF Exists(e)
                 THEN [events EXCEPT ![e].issuedCount = @ + 1]
                 ELSE events
  /\ pc' = [pc EXCEPT ![p] = "idle"]
  /\ voucherDoc' = [voucherDoc EXCEPT ![p] = NoDoc]
  /\ last' = Result(p, "old_issue", 200, "issued", NullDate)
  /\ stats' = [stats EXCEPT !.issued = @ + 1]
  /\ Touch(p)
  /\ UNCHANGED <<clock, freshIds, vouchers, nextVoucherId, userId, now, target,
                 attempts, txn, docLock, useOk, notices, leaseFrom>>

\* ------------------------------------------- activateEvent, deactivateEvent
\* findByIdAndUpdate(id, {isActive: ...}): one write outside any transaction,
\* which waits for the transaction holding the document.
SetActive(p, active) ==
  /\ Idle(p)
  /\ docLock = NoProc
  /\ \E e \in EventIds :
       IF Exists(e)
       THEN /\ events' = [events EXCEPT ![e].isActive = active]
            /\ last' = Result(p, IF active THEN "activate" ELSE "deactivate",
                              200, "updated", NullDate)
            /\ Touch(p)
       ELSE /\ events' = events
            /\ last' = Result(p, IF active THEN "activate" ELSE "deactivate",
                              0, "Event not found", NullDate)
            /\ stale' = stale
  /\ UNCHANGED <<clock, freshIds, vouchers, nextVoucherId, procVars, txn,
                 docLock, histVars, notices, leaseFrom>>

ActivateEvent(p) == SetActive(p, TRUE)

DeactivateEvent(p) == SetActive(p, FALSE)

\* -------------------------------------------------------------- deleteEvent
\* Event.findByIdAndDelete(id): one write outside any transaction, which
\* waits for the transaction holding the document.
DeleteEventRemove(p) ==
  /\ Idle(p)
  /\ docLock = NoProc
  /\ \E e \in EventIds :
       IF Exists(e)
       THEN /\ events' = [x \in DOMAIN events \ {e} |-> events[x]]
            /\ pc' = [pc EXCEPT ![p] = "delete_vouchers"]
            /\ last' = last
            /\ Touch(p)
       ELSE /\ events' = events
            /\ pc' = pc
            /\ last' = Result(p, "deleteEvent", 0, "Event not found", NullDate)
            /\ stale' = stale
  /\ UNCHANGED <<clock, freshIds, vouchers, nextVoucherId, userId, now, target,
                 attempts, voucherDoc, txn, docLock, histVars, notices,
                 leaseFrom>>

\* Voucher.deleteMany({eventId: id}): the committed vouchers of the event.
DeleteMany(e) == {v \in vouchers : v.eventId # e}

\* The second store call of deleteEvent; when it throws, the event is gone
\* and its vouchers stay.
DeleteEventVouchers(p) ==
  /\ pc[p] = "delete_vouchers"
  /\ \E e \in EventIds, ok \in BOOLEAN :
       IF ok
       THEN /\ vouchers' = DeleteMany(e)
            /\ last' = Result(p, "deleteEvent", 200, "deleted", NullDate)
       ELSE /\ vouchers' = vouchers
            /\ last' = Result(p, "deleteEvent", 0, "Event deletion failed",
                              NullDate)
  /\ pc' = [pc EXCEPT ![p] = "idle"]
  /\ UNCHANGED <<clock, events, freshIds, nextVoucherId, userId, now, target,
                 attempts, voucherDoc, txn, docLock, histVars, notices, stale,
                 leaseFrom>>

\* -------------------------------------------------------------- updateEvent
\* isEventLocked(eventId, userId): a read of the event and of the clock.
IsEventLocked(e, u) ==
  /\ Exists(e)
  /\ events[e].editingBy # Null
  /\ events[e].editingBy # u
  /\ DateGt(events[e].editLockAt, clock)

\* runValidators: maxQuantity has min 1.
ValidMaxQuantity(q) == q >= 1

\* The input's maxQuantity is kept in `target` until the write.
UpdateBegin(p) ==
  /\ Idle(p)
  /\ \E u \in UserIds, q \in 0..MaxQuantity :
       /\ pc' = [pc EXCEPT ![p] = "update_check"]
       /\ userId' = [userId EXCEPT ![p] = u]
       /\ target' = [target EXCEPT ![p] = q]
  /\ UNCHANGED <<clock, storeVars, now, attempts, voucherDoc, txn, docLock,
                 last, histVars>>
  /\ UNCHANGED <<notices, stale, leaseFrom>>

UpdateCheck(p) ==
  /\ pc[p] = "update_check"
  /\ \E e \in EventIds :
       IF IsEventLocked(e, userId[p])
       THEN /\ Return(p)
            /\ target' = [target EXCEPT ![p] = 0]
            /\ last' = Result(p, "update", 0,
                 "Event is currently being edited by another user", NullDate)
       ELSE /\ pc' = [pc EXCEPT ![p] = "update_write"]
            /\ UNCHANGED <<userId, now, target, last>>
  /\ UNCHANGED <<clock, storeVars, attempts, voucherDoc, txn, docLock, histVars>>
  /\ UNCHANGED <<notices, stale, leaseFrom>>

\* findByIdAndUpdate(id, {$set: input}, {runValidators: true}); a write made
\* outside a transaction waits for the transaction holding the document.
UpdateWrite(p) ==
  /\ pc[p] = "update_write"
  /\ docLock = NoProc
  /\ \E e \in EventIds :
       IF ~ValidMaxQuantity(target[p])
       THEN /\ events' = events
            /\ last' = Result(p, "update", 0, "Validation failed", NullDate)
       ELSE IF Exists(e)
       THEN /\ events' = [events EXCEPT ![e].maxQuantity = target[p]]
            /\ last' = Result(p, "update", 200, "updated", NullDate)
       ELSE /\ events' = events
            /\ last' = Result(p, "update", 0, "Event not found", NullDate)
  /\ Return(p)
  /\ target' = [target EXCEPT ![p] = 0]
  /\ UNCHANGED <<clock, freshIds, vouchers, nextVoucherId, attempts, voucherDoc,
                 txn, docLock, histVars>>
  /\ IF events' # events THEN Touch(p) ELSE stale' = stale
  /\ UNCHANGED <<notices, leaseFrom>>

\* ------------------------------------------------------------ createVoucher
\* GraphQL createVoucher and POST /api/vouchers run the same three store
\* calls.  The input (event, code) is kept in voucherDoc until the save.
CreateVoucherBegin(p) ==
  /\ Idle(p)
  /\ \E e \in EventIds, code \in Codes :
       voucherDoc' = [voucherDoc EXCEPT ![p] = NewVoucher(0, e, code, NullDate)]
  /\ pc' = [pc EXCEPT ![p] = "cv_code"]
  /\ UNCHANGED <<clock, storeVars, userId, now, target, attempts, txn, docLock,
                 last, histVars, notices, stale, leaseFrom>>

\* The failure answer of createVoucher; the input goes out of scope.
CreateVoucherFail(p, message) ==
  /\ pc' = [pc EXCEPT ![p] = "idle"]
  /\ voucherDoc' = [voucherDoc EXCEPT ![p] = NoDoc]
  /\ last' = Result(p, "createVoucher", 400, message, NullDate)

\* Voucher.findOne({code}).
CreateVoucherCode(p) ==
  /\ pc[p] = "cv_code"
  /\ IF DuplicateKey(voucherDoc[p].code)
     THEN CreateVoucherFail(p, "Voucher code already exists")
     ELSE /\ pc' = [pc EXCEPT ![p] = "cv_event"]
          /\ UNCHANGED <<voucherDoc, last>>
  /\ UNCHANGED <<clock, storeVars, userId, now, target, attempts, txn, docLock,
                 histVars, notices, stale, leaseFrom>>

\* Event.findById(input.eventId): only the existence of the event is checked.
CreateVoucherEvent(p) ==
  /\ pc[p] = "cv_event"
  /\ IF ~Exists(voucherDoc[p].eventId)
     THEN CreateVoucherFail(p, "Event not found")
     ELSE /\ pc' = [pc EXCEPT ![p] = "cv_save"]
          /\ UNCHANGED <<voucherDoc, last>>
  /\ UNCHANGED <<clock, storeVars, userId, now, target, attempts, txn, docLock,
                 histVars, notices, stale, leaseFrom>>

\* voucher.save(): the unique index on the code is the only check left; a
\* code inserted by an open transaction makes the insert wait for its end.
CreateVoucherSave(p) ==
  /\ pc[p] = "cv_save"
  /\ ~StagedCode(p, voucherDoc[p].code)
  /\ IF DuplicateKey(voucherDoc[p].code)
     THEN /\ CreateVoucherFail(p, "Voucher creation failed")
          /\ UNCHANGED <<vouchers, nextVoucherId, useOk>>
     ELSE /\ vouchers' = vouchers \cup
               {[voucherDoc[p] EXCEPT !.id = nextVoucherId + 1,
                                      !.updatedAt = clock]}
          /\ nextVoucherId' = nextVoucherId + 1
          /\ useOk' = Append(useOk, 0)
          /\ pc' = [pc EXCEPT ![p] = "idle"]
          /\ voucherDoc' = [voucherDoc EXCEPT ![p] = NoDoc]
          /\ last' = Result(p, "createVoucher", 201, "created", NullDate)
  /\ UNCHANGED <<clock, events, freshIds, userId, now, target, attempts, txn,
                 docLock, stats, notices, stale, leaseFrom>>

\* --------------------------------------------------------------- useVoucher
UseBegin(p) ==
  /\ Idle(p)
  /\ \E id \in 1..nextVoucherId :
       /\ pc' = [pc EXCEPT ![p] = "use_read"]
       /\ target' = [target EXCEPT ![p] = id]
  /\ UNCHANGED <<clock, storeVars, userId, now, attempts, voucherDoc, txn,
                 docLock, last, histVars>>
  /\ UNCHANGED <<notices, stale, leaseFrom>>

\* Mutant of the check: a used voucher is not turned away.
AlreadyUsedNever(v) == FALSE

\* if (voucher.isUsed) throw 'Voucher has already been used'.
AlreadyUsed(v) == v.isUsed

\* Voucher.findById and the two checks on what it read.
UseRead(p) ==
  /\ pc[p] = "use_read"
  /\ IF target[p] \notin VoucherIds
     THEN /\ pc' = [pc EXCEPT ![p] = "idle"]
          /\ target' = [target EXCEPT ![p] = 0]
          /\ last' = Result(p, "use", 404, "Voucher not found", NullDate)
     ELSE IF AlreadyUsed(VoucherById(target[p]))
     THEN /\ pc' = [pc EXCEPT ![p] = "idle"]
          /\ target' = [target EXCEPT ![p] = 0]
          /\ last' = Result(p, "use", 400, "Voucher has already been used",
                            NullDate)
     ELSE /\ pc' = [pc EXCEPT ![p] = "use_write"]
          /\ UNCHANGED <<target, last>>
  /\ UNCHANGED <<clock, storeVars, userId, now, attempts, voucherDoc, txn,
                 docLock, histVars>>
  /\ UNCHANGED <<notices, stale, leaseFrom>>

\* Voucher.findByIdAndUpdate(id, {isUsed: true, updatedAt: new Date()}).
UseUpdate(id, t) ==
  {IF v.id = id THEN [v EXCEPT !.isUsed = TRUE, !.updatedAt = t] ELSE v
     : v \in vouchers}

\* The update returns the updated document, or null when there is none.
UseWrite(p) ==
  /\ pc[p] = "use_write"
  /\ vouchers' = UseUpdate(target[p], clock)
  /\ voucherDoc' = [voucherDoc EXCEPT ![p] =
       IF target[p] \in VoucherIds
       THEN [VoucherById(target[p]) EXCEPT !.isUsed = TRUE, !.updatedAt = clock]
       ELSE NoDoc]
  /\ pc' = [pc EXCEPT ![p] = "use_notify"]
  /\ UNCHANGED <<clock, events, freshIds, nextVoucherId, userId, now, target,
                 attempts, txn, docLock, last, histVars>>
  /\ UNCHANGED <<notices, stale, leaseFrom>>

\* queueService.addVoucherUsedNotificationJob: it returns null when no admin
\* has an email, and otherwise throws, its job type table being undefined in
\* the service; reading the code of a null document throws as well.  Nothing
\* is ever added.
AddVoucherUsedNotificationJob(v, ok) == notices

\* The notice is attempted inside its own try/catch, then the call returns
\* what the update returned.
UseNotify(p) ==
  /\ pc[p] = "use_notify"
  /\ \E ok \in BOOLEAN :
       notices' = AddVoucherUsedNotificationJob(voucherDoc[p], ok)
  /\ IF voucherDoc[p] # NoDoc
     THEN /\ last' = Result(p, "use", 200, "used", NullDate)
          /\ useOk' = [useOk EXCEPT ![voucherDoc[p].id] = @ + 1]
     ELSE /\ last' = Result(p, "use", 200, "null", NullDate)
          /\ useOk' = useOk
  /\ pc' = [pc EXCEPT ![p] = "idle"]
  /\ target' = [target EXCEPT ![p] = 0]
  /\ voucherDoc' = [voucherDoc EXCEPT ![p] = NoDoc]
  /\ UNCHANGED <<clock, storeVars, userId, now, attempts, txn, docLock, stats,
                 stale, leaseFrom>>

\* ------------------------------------------------------------ deleteVoucher
DeleteVoucher(p) ==
  /\ Idle(p)
  /\ \E id \in 1..nextVoucherId :
       /\ vouchers' = {v \in vouchers : v.id # id}
       /\ last' = IF id \in VoucherIds
                  THEN Result(p, "deleteVoucher", 200, "true", NullDate)
                  ELSE Result(p, "deleteVoucher", 0, "Voucher not found",
                              NullDate)
  /\ UNCHANGED <<clock, events, freshIds, nextVoucherId, procVars, txn, docLock,
                 histVars>>
  /\ UNCHANGED <<notices, stale, leaseFrom>>


\* ---------------------------------------------------------- specifications
Init ==
  /\ clock = 0
  /\ events = <<>>
  /\ freshIds = EventIds
  /\ vouchers = {}
  /\ nextVoucherId = 0
  /\ pc = [p \in Procs |-> "idle"]
  /\ userId = [p \in Procs |-> Null]
  /\ now = [p \in Procs |-> 0]
  /\ target = [p \in Procs |-> 0]
  /\ attempts = [p \in Procs |-> 0]
  /\ voucherDoc = [p \in Procs |-> NoDoc]
  /\ txn = [p \in Procs |-> NoWrites]
  /\ docLock = NoProc
  /\ last = NoResult
  /\ notices = {}
  /\ stale = [p \in Procs |-> FALSE]
  /\ leaseFrom = [e \in EventIds |-> "none"]
  /\ stats = [started |-> 0, issued |-> 0, exhausted |-> 0, codeFailed |-> 0,
              failed |-> 0]
  /\ useOk = <<>>

NextLock ==
  \/ Tick
  \/ CreateEvent
  \/ \E p \in Procs : RequestBegin(p)
  \/ \E p \in Procs : RequestExec(p)
  \/ \E p \in Procs : ReleaseBegin(p)
  \/ \E p \in Procs : ReleaseExec(p)
  \/ \E p \in Procs : MaintainBegin(p)
  \/ \E p \in Procs : MaintainExec(p)

SpecLock == Init /\ [][NextLock]_vars

\* The lock operations and updateEvent on events created through either
\* interface, at one instant: which of the two lock fields are set is not a
\* matter of time.
NextRest ==
  \/ CreateEvent
  \/ RestCreateEvent
  \/ \E p \in Procs : RequestBegin(p)
  \/ \E p \in Procs : RequestExec(p)
  \/ \E p \in Procs : ReleaseBegin(p)
  \/ \E p \in Procs : ReleaseExec(p)
  \/ \E p \in Procs : MaintainBegin(p)
  \/ \E p \in Procs : MaintainExec(p)
  \/ \E p \in Procs : UpdateBegin(p)
  \/ \E p \in Procs : UpdateCheck(p)
  \/ \E p \in Procs : UpdateWrite(p)

SpecRest == Init /\ [][NextRest]_vars

\* updateEvent against users taking the edit lock.
NextEdit ==
  \/ Tick
  \/ CreateEvent
  \/ \E p \in Procs : RequestBegin(p)
  \/ \E p \in Procs : RequestExec(p)
  \/ \E p \in Procs : UpdateBegin(p)
  \/ \E p \in Procs : UpdateCheck(p)
  \/ \E p \in Procs : UpdateWrite(p)

SpecEdit == Init /\ [][NextEdit]_vars

\* The store once createEvent has saved one event.
InitIssue ==
  /\ \E q \in 1..MaxQuantity : events = ("e1" :> NewEvent(q))
  /\ freshIds = {}
  /\ clock = 0
  /\ vouchers = {}
  /\ nextVoucherId = 0
  /\ pc = [p \in Procs |-> "idle"]
  /\ userId = [p \in Procs |-> Null]
  /\ now = [p \in Procs |-> 0]
  /\ target = [p \in Procs |-> 0]
  /\ attempts = [p \in Procs |-> 0]
  /\ voucherDoc = [p \in Procs |-> NoDoc]
  /\ txn = [p \in Procs |-> NoWrites]
  /\ docLock = NoProc
  /\ last = NoResult
  /\ notices = {}
  /\ stale = [p \in Procs |-> FALSE]
  /\ leaseFrom = [e \in EventIds |-> "none"]
  /\ stats = [started |-> 0, issued |-> 0, exhausted |-> 0, codeFailed |-> 0,
              failed |-> 0]
  /\ useOk = <<>>

\* Issue calls alone on one event.
NextIssue ==
  \/ \E p \in Procs : IssueBegin(p)
  \/ \E p \in Procs : IssueInc(p)
  \/ \E p \in Procs : IssueCreate(p)
  \/ \E p \in Procs : IssueCommit(p)
  \/ \E p \in Procs : IssueNotify(p)

SpecIssue == InitIssue /\ [][NextIssue]_vars

\* Issue calls together with the admin edit of the event.
NextQuota ==
  \/ CreateEvent
  \/ NextIssue
  \/ \E p \in Procs : UpdateBegin(p)
  \/ \E p \in Procs : UpdateCheck(p)
  \/ \E p \in Procs : UpdateWrite(p)

SpecQuota == Init /\ [][NextQuota]_vars

\* Both issuance paths on an event that is switched on and off.
NextActive ==
  \/ NextIssue
  \/ \E p \in Procs : RestIssueBegin(p)
  \/ \E p \in Procs : RestIssueRead(p)
  \/ \E p \in Procs : RestIssueSave(p)
  \/ \E p \in Procs : RestIssueInc(p)
  \/ \E p \in Procs : RestIssueCommit(p)
  \/ \E p \in Procs : RestIssueNotify(p)
  \/ \E p \in Procs : ActivateEvent(p)
  \/ \E p \in Procs : DeactivateEvent(p)

SpecActive == InitIssue /\ [][NextActive]_vars

\* Issue calls together with the direct creation of vouchers.
NextCreate ==
  \/ NextIssue
  \/ \E p \in Procs : CreateVoucherBegin(p)
  \/ \E p \in Procs : CreateVoucherCode(p)
  \/ \E p \in Procs : CreateVoucherEvent(p)
  \/ \E p \in Procs : CreateVoucherSave(p)

SpecCreate == InitIssue /\ [][NextCreate]_vars

\* Issue calls and direct creation of vouchers while the event is deleted.
NextDelete ==
  \/ NextCreate
  \/ \E p \in Procs : DeleteEventRemove(p)
  \/ \E p \in Procs : DeleteEventVouchers(p)

SpecDelete == InitIssue /\ [][NextDelete]_vars

\* Issue calls whose commit can fail and be run again by withTransaction.
NextRetry ==
  \/ NextIssue
  \/ \E p \in Procs : IssueRetry(p)

SpecRetry == InitIssue /\ [][NextRetry]_vars

\* Concurrent calls of POST /api/vouchers/issue on one event.
NextRestIssue ==
  \/ \E p \in Procs : RestIssueBegin(p)
  \/ \E p \in Procs : RestIssueRead(p)
  \/ \E p \in Procs : RestIssueSave(p)
  \/ \E p \in Procs : RestIssueInc(p)
  \/ \E p \in Procs : RestIssueCommit(p)
  \/ \E p \in Procs : RestIssueNotify(p)

SpecRestIssue == InitIssue /\ [][NextRestIssue]_vars

\* Concurrent calls of the issueVoucherToUser variant without session.
NextOldIssue ==
  \/ \E p \in Procs : OldIssueBegin(p)
  \/ \E p \in Procs : OldIssueRead(p)
  \/ \E p \in Procs : OldIssueSave(p)
  \/ \E p \in Procs : OldIssueInc(p)

SpecOldIssue == InitIssue /\ [][NextOldIssue]_vars

\* The lock operations on a store whose calls can throw.
NextFault ==
  \/ CreateEvent
  \/ \E p \in Procs : RequestBegin(p)
  \/ \E p \in Procs : RequestExec(p)
  \/ \E p \in Procs : ReleaseBegin(p)
  \/ \E p \in Procs : ReleaseExec(p)
  \/ \E p \in Procs : MaintainBegin(p)
  \/ \E p \in Procs : MaintainExec(p)
  \/ \E p \in Procs : RequestFault(p)
  \/ \E p \in Procs : ReleaseFault(p)
  \/ \E p \in Procs : MaintainFault(p)

SpecFault == Init /\ [][NextFault]_vars

\* Issue calls whose store calls all return, with a value or with an error;
\* a handler that can take a step is not suspended for ever.
NextIssueLive ==
  \/ NextIssue
  \/ \E p \in Procs : IssueCreateFault(p)

IssueRuns(p) ==
  IssueInc(p) \/ IssueCreate(p) \/ IssueCommit(p) \/ IssueNotify(p)

SpecIssueLive ==
  /\ InitIssue
  /\ [][NextIssueLive]_vars
  /\ \A p \in Procs : WF_vars(IssueRuns(p))

\* One client: the calls are made one after another by one user, and
\* MaxVouchers voucher ids are handed out.
OneClient ==
  /\ nextVoucherId' <= MaxVouchers
  /\ \A p \in Procs : userId'[p] \in {Null, "alice"}
  /\ \E p \in Procs : \A q \in Procs \ {p} : pc'[q] = "idle"

\* Every operation that writes an event or a voucher, on one event.
NextAll ==
  \/ CreateEvent /\ OneClient
  \/ \E p \in Procs : RequestBegin(p) /\ OneClient
  \/ \E p \in Procs : RequestExec(p) /\ OneClient
  \/ \E p \in Procs : ReleaseBegin(p) /\ OneClient
  \/ \E p \in Procs : ReleaseExec(p) /\ OneClient
  \/ \E p \in Procs : MaintainBegin(p) /\ OneClient
  \/ \E p \in Procs : MaintainExec(p) /\ OneClient
  \/ \E p \in Procs : UpdateBegin(p) /\ OneClient
  \/ \E p \in Procs : UpdateCheck(p) /\ OneClient
  \/ \E p \in Procs : UpdateWrite(p) /\ OneClient
  \/ \E p \in Procs : ActivateEvent(p) /\ OneClient
  \/ \E p \in Procs : DeactivateEvent(p) /\ OneClient
  \/ \E p \in Procs : CreateVoucherBegin(p) /\ OneClient
  \/ \E p \in Procs : CreateVoucherCode(p) /\ OneClient
  \/ \E p \in Procs : CreateVoucherEvent(p) /\ OneClient
  \/ \E p \in Procs : CreateVoucherSave(p) /\ OneClient
  \/ \E p \in Procs : UseBegin(p) /\ OneClient
  \/ \E p \in Procs : UseRead(p) /\ OneClient
  \/ \E p \in Procs : UseWrite(p) /\ OneClient
  \/ \E p \in Procs : UseNotify(p) /\ OneClient
  \/ \E p \in Procs : DeleteVoucher(p) /\ OneClient
  \/ \E p \in Procs : IssueBegin(p) /\ OneClient
  \/ \E p \in Procs : IssueInc(p) /\ OneClient
  \/ \E p \in Procs : IssueCreate(p) /\ OneClient
  \/ \E p \in Procs : IssueCommit(p) /\ OneClient
  \/ \E p \in Procs : IssueNotify(p) /\ OneClient

SpecAll == Init /\ [][NextAll]_vars

\* The lock operations and Issue calls on one event.
NextMixed ==
  \/ NextIssue
  \/ \E p \in Procs : RequestBegin(p)
  \/ \E p \in Procs : RequestExec(p)
  \/ \E p \in Procs : RequestConflict(p)
  \/ \E p \in Procs : ReleaseBegin(p)
  \/ \E p \in Procs : ReleaseExec(p)
  \/ \E p \in Procs : ReleaseConflict(p)
  \/ \E p \in Procs : MaintainBegin(p)
  \/ \E p \in Procs : MaintainExec(p)
  \/ \E p \in Procs : MaintainConflict(p)

SpecMixed == InitIssue /\ [][NextMixed]_vars

\* The store once an event was created and Issue calls committed k vouchers.
IssuedVoucher(i) == NewVoucher(i, "e1", IF i = 1 THEN "A" ELSE "B", 0)

InitUse ==
  /\ \E q \in 1..MaxQuantity, k \in 1..2 :
       /\ k <= q
       /\ events = ("e1" :> [NewEvent(q) EXCEPT !.issuedCount = k])
       /\ vouchers = {IssuedVoucher(i) : i \in 1..k}
       /\ nextVoucherId = k
       /\ useOk = [i \in 1..k |-> 0]
       /\ stats = [started |-> k, issued |-> k, exhausted |-> 0,
                   codeFailed |-> 0, failed |-> 0]
  /\ freshIds = {}
  /\ clock = 0
  /\ pc = [p \in Procs |-> "idle"]
  /\ userId = [p \in Procs |-> Null]
  /\ now = [p \in Procs |-> 0]
  /\ target = [p \in Procs |-> 0]
  /\ attempts = [p \in Procs |-> 0]
  /\ voucherDoc = [p \in Procs |-> NoDoc]
  /\ txn = [p \in Procs |-> NoWrites]
  /\ docLock = NoProc
  /\ last = NoResult
  /\ notices = {}
  /\ stale = [p \in Procs |-> FALSE]
  /\ leaseFrom = [e \in EventIds |-> "none"]

\* Issued vouchers being used and deleted.
NextUse ==
  \/ Tick
  \/ \E p \in Procs : UseBegin(p)
  \/ \E p \in Procs : UseRead(p)
  \/ \E p \in Procs : UseWrite(p)
  \/ \E p \in Procs : UseNotify(p)
  \/ \E p \in Procs : DeleteVoucher(p)

SpecUse == InitUse /\ [][NextUse]_vars

\* =================================================================== claims
Quiescent == \A p \in Procs : pc[p] = "idle"

\* The step in which call p of the given operation makes its store call.
RequestStep(p) == pc[p] = "request" /\ pc'[p] = "idle"
ReleaseStep(p) == pc[p] = "release" /\ pc'[p] = "idle"
MaintainStep(p) == pc[p] = "maintain" /\ pc'[p] = "idle"

HeldUnexpired(doc, t) == doc.editingBy # Null /\ DateGt(doc.editLockAt, t)

\* C1 -- mutual exclusion of the edit lock: a requestEditLock by a user other
\* than the one in editingBy, made while editLockAt is later than the time the
\* call sampled (hence also later than the clock), never returns 'Edit lock
\* acquired' and leaves editingBy and editLockAt as they were.
C1_MutualExclusion ==
  [][\A p \in Procs : RequestStep(p) =>
       \A e \in DOMAIN events :
         (HeldUnexpired(events[e], now[p]) /\ events[e].editingBy # userId[p])
           => /\ last'.message # "Edit lock acquired"
              /\ events'[e].editingBy = events[e].editingBy
              /\ events'[e].editLockAt = events[e].editLockAt]_vars

\* C1 witness: a request by another user was turned away from a live lock.
C1_Witness ==
  /\ last.op = "request" /\ last.code = 409
  /\ last.prevBy \notin {Null, last.user}
  /\ \E e \in DOMAIN events :
       events[e].editingBy = last.prevBy /\ DateGt(events[e].editLockAt, clock)

\* C2 as stated -- in a quiescent state after more Issue calls than slots,
\* exactly maxQuantity calls succeeded, all others ended capacity-exhausted,
\* and issuedCount equals maxQuantity.
C2_ExactlyKSucceed ==
  Quiescent =>
    \A e \in DOMAIN events :
      stats.started > events[e].maxQuantity =>
        /\ stats.issued = events[e].maxQuantity
        /\ stats.exhausted = stats.started - events[e].maxQuantity
        /\ events[e].issuedCount = events[e].maxQuantity

\* C2 amended -- issuedCount never exceeds maxQuantity; in a quiescent state
\* every call ended issued, capacity-exhausted or code-exhausted, issuedCount
\* is the number of issued calls, and when no call ended code-exhausted and
\* more calls ran than there were slots, exactly maxQuantity were issued and
\* all others ended capacity-exhausted.
C2_CapacityUnderConcurrency ==
  \A e \in DOMAIN events :
    /\ events[e].issuedCount <= events[e].maxQuantity
    /\ Quiescent =>
         /\ stats.issued + stats.exhausted + stats.codeFailed = stats.started
         /\ events[e].issuedCount = stats.issued
         /\ (stats.codeFailed = 0 /\ stats.started > events[e].maxQuantity) =>
              /\ stats.issued = events[e].maxQuantity
              /\ stats.exhausted = stats.started - events[e].maxQuantity
              /\ events[e].issuedCount = events[e].maxQuantity

\* C2 witness: more calls than slots, the surplus turned away, the event full.
C2_Witness ==
  /\ Quiescent
  /\ stats.codeFailed = 0
  /\ stats.exhausted >= 1
  /\ \E e \in DOMAIN events :
       /\ stats.started > events[e].maxQuantity
       /\ events[e].maxQuantity >= 2
       /\ events[e].issuedCount = events[e].maxQuantity
       /\ Cardinality({v \in vouchers : v.eventId = e}) = events[e].maxQuantity

\* C3 as stated -- issuedCount never exceeds maxQuantity, whatever updateEvent
\* writes.
C3_IssuedWithinCapacity ==
  \A e \in DOMAIN events : events[e].issuedCount <= events[e].maxQuantity

\* C4 -- self re-entrancy: a requestEditLock by the user in editingBy, made
\* while editLockAt is later than the time the call sampled, returns 200
\* 'Already editing' with the existing expiry and changes no event.
C4_SelfReentrancy ==
  [][\A p \in Procs : RequestStep(p) =>
       \A e \in DOMAIN events :
         (HeldUnexpired(events[e], now[p]) /\ events[e].editingBy = userId[p])
           => /\ last'.code = 200
              /\ last'.message = "Already editing"
              /\ last'.lockUntil = events[e].editLockAt
              /\ events' = events]_vars

\* C4 witness: the holder asked again and the lease kept its expiry.
C4_Witness ==
  /\ last.op = "request" /\ last.message = "Already editing"
  /\ last.prevBy = last.user
  /\ \E e \in DOMAIN events :
       events[e].editingBy = last.user /\ events[e].editLockAt = last.prevAt

\* C5 -- expiry reclaim: a requestEditLock by a user other than the one in
\* editingBy, made at a time later than editLockAt (the holder's acquire time
\* plus the window, when no extend or release followed), returns 'Edit lock
\* acquired' and sets editingBy to the caller and editLockAt to its time plus
\* the window.
C5_ExpiryReclaim ==
  [][\A p \in Procs : RequestStep(p) =>
       \A e \in DOMAIN events :
         (/\ events[e].editingBy \notin {Null, userId[p]}
          /\ DateLt(events[e].editLockAt, now[p]))
           => /\ last'.code = 200
              /\ last'.message = "Edit lock acquired"
              /\ last'.lockUntil = now[p] + EDIT_TIMEOUT_MS
              /\ events'[e].editingBy = userId[p]
              /\ events'[e].editLockAt = now[p] + EDIT_TIMEOUT_MS]_vars

\* C5 witness: a lock another user let expire was taken over.
C5_Witness ==
  /\ last.op = "request" /\ last.message = "Edit lock acquired"
  /\ last.prevBy \notin {Null, last.user}
  /\ last.lockUntil > last.prevAt + EDIT_TIMEOUT_MS
  /\ \E e \in DOMAIN events :
       events[e].editingBy = last.user /\ events[e].editLockAt = last.lockUntil

\* C6 -- release ownership: a releaseEditLock on an existing event whose
\* editingBy is not the caller returns 403 'You are not the editing user'
\* with the current expiry and changes no event.
C6_ReleaseOwnership ==
  [][\A p \in Procs : ReleaseStep(p) =>
       \A e \in DOMAIN events :
         events[e].editingBy # userId[p]
           => /\ last'.code = 403
              /\ last'.message = "You are not the editing user"
              /\ last'.lockUntil = events[e].editLockAt
              /\ events' = events]_vars

\* C6 witness: a user who does not hold the lock asked to release it while
\* another user held it, and the other user still holds it.
C6_Witness ==
  /\ last.op = "release" /\ last.code = 403
  /\ last.prevBy \notin {Null, last.user}
  /\ \E e \in DOMAIN events :
       events[e].editingBy = last.prevBy /\ events[e].editLockAt = last.prevAt

\* C7 -- atomic rollback on code exhaustion: the step in which an Issue call
\* gives up after its third duplicate code reports the failure, changes
\* neither the events nor the vouchers, and leaves issuedCount equal to the
\* number of Issue calls that committed.
C7_RollbackOnCodeExhaustion ==
  [][\A p \in Procs : (pc[p] = "issue_create" /\ pc'[p] = "idle") =>
       /\ last'.message = "Failed to generate unique voucher code"
       /\ events' = events
       /\ vouchers' = vouchers
       /\ \A e \in DOMAIN events :
            /\ events'[e].issuedCount = stats'.issued
            /\ Cardinality({v \in vouchers' : v.eventId = e}) = stats'.issued
     ]_vars

\* C7 witness: an Issue call ended code-exhausted on an event with a slot left.
C7_Witness ==
  /\ last.op = "issue"
  /\ last.message = "Failed to generate unique voucher code"
  /\ stats.codeFailed >= 1
  /\ \E e \in DOMAIN events :
       /\ events[e].issuedCount = stats.issued
       /\ events[e].issuedCount < events[e].maxQuantity

\* C8 as stated -- of the use calls made on one voucher at most one returns
\* success.
C8_UsedExactlyOnce == \A i \in DOMAIN useOk : useOk[i] <= 1

\* C9 -- use idempotency: a use call that finds the voucher used returns
\* 'Voucher has already been used', one that finds no voucher returns
\* 'Voucher not found'; either ends the call and changes no voucher.
C9_UseIdempotency ==
  [][\A p \in Procs : (pc[p] = "use_read" /\ pc'[p] # "use_read") =>
       /\ (target[p] \in VoucherIds /\ VoucherById(target[p]).isUsed)
            => /\ last'.message = "Voucher has already been used"
               /\ last'.proc = p
               /\ pc'[p] = "idle"
               /\ vouchers' = vouchers
       /\ target[p] \notin VoucherIds
            => /\ last'.message = "Voucher not found"
               /\ last'.proc = p
               /\ pc'[p] = "idle"
               /\ vouchers' = vouchers]_vars

\* C9 witness: a use call was turned away from a used voucher, which is still
\* used.
C9_Witness ==
  /\ last.op = "use" /\ last.message = "Voucher has already been used"
  /\ \E v \in vouchers : v.isUsed /\ useOk[v.id] = 1

\* C10 -- maintainEditLock returns 200 exactly when, at its update, the event
\* exists, editingBy is the caller and editLockAt is later than the time the
\* call sampled; it then sets editLockAt to that time plus the window and
\* changes nothing else.
C10_MaintainExtends ==
  [][\A p \in Procs : MaintainStep(p) =>
       LET holds == \E e \in DOMAIN events :
                      /\ events[e].editingBy = userId[p]
                      /\ DateGt(events[e].editLockAt, now[p])
       IN /\ (last'.code = 200) <=> holds
          /\ holds =>
               /\ last'.lockUntil = now[p] + EDIT_TIMEOUT_MS
               /\ \A e \in DOMAIN events :
                    events' = [events EXCEPT
                       ![e].editLockAt = now[p] + EDIT_TIMEOUT_MS]
          /\ ~holds => events' = events
          /\ vouchers' = vouchers]_vars

\* C10 witness: the holder extended a live lease to a later expiry.
C10_Witness ==
  /\ last.op = "maintain" /\ last.code = 200
  /\ last.prevBy = last.user
  /\ last.lockUntil > last.prevAt
  /\ \E e \in DOMAIN events :
       events[e].editingBy = last.user /\ events[e].editLockAt = last.lockUntil

C12_WindowRestarts ==
  [][\A p \in Procs : \A e \in DOMAIN events :
       /\ (MaintainStep(p) /\ last'.code = 200) =>
            /\ events'[e].editLockAt = now[p] + EDIT_TIMEOUT_MS
            /\ events'[e].editingBy = events[e].editingBy
            /\ last'.lockUntil = now[p] + EDIT_TIMEOUT_MS
       /\ (/\ RequestStep(p)
           /\ leaseFrom[e] = "maintain"
           /\ events[e].editingBy # userId[p]
           /\ now[p] < events[e].editLockAt) =>
            /\ last'.code = 409
            /\ last'.message = "Event is being edited by another user"
            /\ last'.lockUntil = events[e].editLockAt
            /\ events' = events]_vars

\* C12 witness: with a window of 3 ticks (300 s), an extend at tick 2 moved
\* the expiry to tick 5, and at tick 4 a request of another user was turned
\* away with expiry 5, the lock being as the extend left it.
C12_Witness ==
  /\ clock = 4
  /\ last.op = "request" /\ last.code = 409
  /\ last.lockUntil = 2 + EDIT_TIMEOUT_MS
  /\ last.prevBy \notin {Null, last.user}
  /\ \E e \in DOMAIN events :
       /\ leaseFrom[e] = "maintain"
       /\ events[e].editingBy = last.prevBy
       /\ events[e].editLockAt = 2 + EDIT_TIMEOUT_MS

\* C13 as stated -- requestEditLock returns 404 'Event not found' exactly
\* when the event is absent; on an existing event the outcome is acquired,
\* already editing, or edited by another user.
C13_NotFoundIffAbsent ==
  [][\A p \in Procs : RequestStep(p) =>
       \A e \in EventIds :
         /\ (last'.code = 404) <=> ~Exists(e)
         /\ Exists(e) => last'.message \in
              {"Edit lock acquired", "Already editing",
               "Event is being edited by another user"}]_vars

\* C14 -- a releaseEditLock by the user in editingBy returns 200 'Edit lock
\* released' whether editLockAt has passed or not, and sets editingBy and
\* editLockAt to null; a requestEditLock on an event in that state, by any
\* user and at any time, returns 'Edit lock acquired'.
C14_HolderReleases ==
  [][\A p \in Procs : \A e \in DOMAIN events :
       /\ (ReleaseStep(p) /\ events[e].editingBy = userId[p]) =>
            /\ last'.code = 200
            /\ last'.message = "Edit lock released"
            /\ events'[e].editingBy = Null
            /\ events'[e].editLockAt = NullDate
       /\ (/\ RequestStep(p)
           /\ events[e].editingBy = Null
           /\ events[e].editLockAt = NullDate) =>
            /\ last'.message = "Edit lock acquired"
            /\ events'[e].editingBy = userId[p]]_vars

\* C14 witness: the holder released a lock whose expiry had passed, and the
\* event carries no lock.
C14_Witness ==
  /\ last.op = "release" /\ last.code = 200
  /\ last.prevBy = last.user
  /\ last.prevAt # NullDate /\ last.prevAt < clock
  /\ \E e \in DOMAIN events :
       events[e].editingBy = Null /\ events[e].editLockAt = NullDate

\* C15 as stated -- on every event editingBy is set exactly when editLockAt
\* is set.
C15_LockFieldsTogether ==
  \A e \in DOMAIN events :
    (events[e].editingBy # Null) <=> (events[e].editLockAt # NullDate)

C16_NoIssueWhenInactive ==
  [][\A p \in Procs : \A e \in DOMAIN events :
       (/\ events[e].isActive = FALSE
        /\ pc[p] \in {"issue_inc", "rest_inc"}
        /\ pc'[p] # pc[p]) =>
         /\ pc'[p] = "idle"
         /\ last'.proc = p /\ last'.code \notin {200, 201}
         /\ events' = events
         /\ vouchers' = vouchers]_vars

\* C17 as stated -- an Issue call whose conditional increment matches no
\* event reports 'Event not found' when the event is absent and a different,
\* capacity-exhausted failure when the event exists; either way it aborts,
\* changing neither the events nor the vouchers.
C17_FailureNamesCause ==
  [][\A p \in Procs : (pc[p] = "issue_inc" /\ pc'[p] = "idle") =>
       /\ last'.proc = p /\ last'.code # 200
       /\ events' = events
       /\ vouchers' = vouchers
       /\ \A e \in EventIds :
            (last'.message = "Event not found") <=> ~Exists(e)]_vars

\* C19 as stated -- the write of an updateEvent call is never applied to an
\* event on which, at that moment, a user other than the caller holds an
\* unexpired edit lock.
C19_NoUpdateUnderForeignLock ==
  [][\A p \in Procs :
       (pc[p] = "update_write" /\ pc'[p] = "idle" /\ last'.code = 200) =>
         \A e \in DOMAIN events :
           ~(/\ events[e].editingBy \notin {Null, userId[p]}
             /\ DateGt(events[e].editLockAt, clock))]_vars

\* C20 as stated -- the number of vouchers referencing an event never
\* exceeds the event's maxQuantity, whichever path created them.
C20_VouchersWithinCapacity ==
  \A e \in DOMAIN events :
    Cardinality({v \in vouchers : v.eventId = e}) <= events[e].maxQuantity

\* C21 as stated -- once deleteEvent has completed (the event is gone and no
\* call is between its two store calls), no voucher references the event.
C21_CascadeDelete ==
  \A e \in EventIds :
    (~Exists(e) /\ \A p \in Procs : pc[p] # "delete_vouchers") =>
      \A v \in vouchers : v.eventId # e

\* C22: lock operations and Issue do not interfere on one event.  A lock
\* operation leaves issuedCount, maxQuantity and isActive alone, a step of Issue
\* leaves editingBy and editLockAt alone, and a requestEditLock that runs
\* while an Issue is under way returns what the event's lock fields alone
\* decide: acquired, already editing, held by another user or not found.
IssuePcs == {"issue_inc", "issue_create", "issue_commit", "issue_notify"}

LockStep(p) == RequestStep(p) \/ ReleaseStep(p) \/ MaintainStep(p)

IssueStep(p) ==
  /\ pc[p] \in IssuePcs
  /\ pc'[p] # pc[p] \/ attempts'[p] # attempts[p]

RequestAlone(p, e) ==
  IF Exists(e) /\ RequestFilter(events[e], now[p])
  THEN Result(p, "request", 200, "Edit lock acquired",
              now[p] + EDIT_TIMEOUT_MS)
  ELSE RequestDiagnose(p, e)

C22_NoInterference ==
  [][\A p \in Procs, e \in DOMAIN events :
       /\ LockStep(p) =>
            /\ events'[e].issuedCount = events[e].issuedCount
            /\ events'[e].maxQuantity = events[e].maxQuantity
            /\ events'[e].isActive = events[e].isActive
       /\ IssueStep(p) =>
            /\ events'[e].editingBy = events[e].editingBy
            /\ events'[e].editLockAt = events[e].editLockAt
       /\ RequestStep(p) =>
            /\ last'.code = RequestAlone(p, e).code
            /\ last'.message = RequestAlone(p, e).message]_vars

\* C23: the outcome classes surfaced to callers.  A lock held by another user
\* and a caller who is not the holder are answered 403, an absent event is
\* answered 404 by every operation and on the REST routes too, an expired
\* lease is answered 409, and no outcome of a lock operation is answered 500.
C23_OutcomeClasses ==
  [][\A p \in Procs, e \in EventIds :
       /\ RequestStep(p) =>
            /\ ~Exists(e) => RestLockStatus(last'.code) = 404
            /\ (Exists(e) /\ HeldUnexpired(events[e], now[p])
                  /\ events[e].editingBy # userId[p]) =>
                 RestLockStatus(last'.code) = 403
            /\ RestLockStatus(last'.code) # 500
       /\ ReleaseStep(p) =>
            /\ ~Exists(e) => RestUnlockStatus(last'.code) = 404
            /\ (Exists(e) /\ events[e].editingBy # userId[p]) =>
                 RestUnlockStatus(last'.code) = 403
            /\ RestUnlockStatus(last'.code) # 500
       /\ MaintainStep(p) =>
            /\ ~Exists(e) => last'.code = 404
            /\ (Exists(e) /\ events[e].editingBy # userId[p]) =>
                 last'.code = 403
            /\ (Exists(e) /\ events[e].editingBy = userId[p]
                  /\ ~DateGt(events[e].editLockAt, now[p])) =>
                 last'.code = 409]_vars

\* C24: no tokenless increment.  The commit of an Issue adds exactly one
\* voucher of the event and exactly one to issuedCount, also when the store
\* has run the transaction body again.
C24_NoTokenlessIncrement ==
  [][\A p \in Procs :
       (pc[p] = "issue_commit" /\ pc'[p] = "issue_notify") =>
         /\ events'["e1"].issuedCount = events["e1"].issuedCount + 1
         /\ \E v \in vouchers' \ vouchers :
              /\ v.eventId = "e1"
              /\ vouchers' = vouchers \cup {v}]_vars

\* C25: POST /api/vouchers/issue keeps the quota under concurrency.  On an
\* event that starts with maxQuantity free slots, at most maxQuantity calls
\* commit, issuedCount never exceeds maxQuantity, and every committed
\* increment has its voucher.
C25_RestQuota ==
  \A e \in DOMAIN events :
    /\ events[e].issuedCount <= events[e].maxQuantity
    /\ stats.issued <= events[e].maxQuantity
    /\ events[e].issuedCount = Cardinality({v \in vouchers : v.eventId = e})

\* Two calls read the last free slot; one committed, the other is about to
\* increment on its stale snapshot.
C25_Witness ==
  \E p \in Procs :
    /\ pc[p] = "rest_inc"
    /\ stale[p]
    /\ events["e1"].issuedCount = events["e1"].maxQuantity

\* C26: the issueVoucherToUser variant without session prevents over-issuance.
\* issuedCount never exceeds maxQuantity, no more vouchers than maxQuantity
\* reference the event, and once every call has returned each voucher has
\* its increment.
C26_OldVariantQuota ==
  \A e \in DOMAIN events :
    /\ events[e].issuedCount <= events[e].maxQuantity
    /\ Cardinality({v \in vouchers : v.eventId = e}) <= events[e].maxQuantity
    /\ Quiescent =>
         events[e].issuedCount = Cardinality({v \in vouchers : v.eventId = e})

\* C27: a store fault during a lock operation is not turned into an outcome.
\* The operation whose store call threw leaves the lock fields as they were
\* and hands the fault to its caller: it returns none of the codes.
C27_FaultPropagates ==
  [][\A p \in Procs :
       (LockStep(p) /\ last'.fault) =>
         /\ events' = events
         /\ last'.code = 0]_vars

\* C28: every Issue call terminates with a terminal outcome.  A call that has
\* begun returns; it stages at most one increment and counts fewer than
\* MaxAttempts duplicate codes before it leaves the loop; it returns as issued
\* or with one of the errors; and a creation error that is not a duplicate
\* ends the call in that very step.
IssueOutcomes ==
  {"issued", "Event not found or no more voucher slots available",
   "Failed to generate unique voucher code", "store fault"}

C28_IssueTerminates ==
  /\ \A p \in Procs : (pc[p] \in IssuePcs) ~> (pc[p] = "idle")
  /\ [](\A p \in Procs : attempts[p] < MaxAttempts /\ txn[p].inc <= 1)
  /\ [][\A p \in Procs :
          /\ (pc[p] \in IssuePcs /\ pc'[p] = "idle") =>
               /\ last'.proc = p
               /\ last'.op = "issue"
               /\ last'.message \in IssueOutcomes
               /\ txn'[p] = NoWrites
          /\ (pc[p] = "issue_create" /\ last' # last /\ last'.fault) =>
               pc'[p] = "idle"]_vars

\* A call that met MaxAttempts - 1 duplicate codes and is in its last pass.
C28_Witness ==
  \E p \in Procs :
    /\ pc[p] = "issue_create"
    /\ attempts[p] = MaxAttempts - 1

\* C29: the lease is bounded.  A held lock never expires later than one
\* window after the present time, and a successful maintainEditLock never
\* moves editLockAt to an earlier time than it was.
C29_LeaseBounded ==
  /\ [](\A e \in DOMAIN events :
          events[e].editingBy # Null =>
            events[e].editLockAt <= clock + EDIT_TIMEOUT_MS)
  /\ [][\A p \in Procs, e \in DOMAIN events :
          (MaintainStep(p) /\ last'.code = 200) =>
            events'[e].editLockAt >= events[e].editLockAt]_vars

\* C30: issuedCount is changed only by issuance.  A created event starts at 0;
\* every later change is one more, made by the commit of an Issue (of the
\* resolver or of POST /api/vouchers/issue); the lock
\* operations, useVoucher, createVoucher, deleteVoucher, updateEvent,
\* activateEvent and deactivateEvent leave it as it was.
IssuanceCommits(p) ==
  \/ pc[p] = "issue_commit" /\ pc'[p] = "issue_notify"
  \/ pc[p] = "rest_commit" /\ pc'[p] = "rest_notify"

C30_IssuedCountByIssuance ==
  [][/\ \A e \in DOMAIN events' \ DOMAIN events : events'[e].issuedCount = 0
     /\ \A e \in DOMAIN events \cap DOMAIN events' :
          \/ events'[e].issuedCount = events[e].issuedCount
          \/ /\ events'[e].issuedCount = events[e].issuedCount + 1
             /\ \E p \in Procs : IssuanceCommits(p)]_vars

\* After an Issue committed, the event was locked and deactivated, the
\* voucher was used and the event updated: issuedCount is still one.
C30_Witness ==
  /\ last.op = "update" /\ last.code = 200
  /\ \E e \in DOMAIN events :
       /\ events[e].issuedCount = 1
       /\ events[e].editingBy # Null
       /\ events[e].isActive = FALSE
  /\ \E v \in vouchers : v.isUsed

====
